---- MODULE Spec2Model ----
(***************************************************************************)
(* Model of birowo/exp: the bit package (bit.Writer / bit.Reader), the     *)
(* Ordering engine of physicscompress (NewOrdering / Improve) and the      *)
(* snapshot codec of physicscompress/physics (State.Encode / State.Decode).*)
(***************************************************************************)
EXTENDS Integers, Sequences, FiniteSets, TLC

(***************************************************************************)
(* Bounds of the model.                                                    *)
(***************************************************************************)
\* most Writer calls (WriteBits, WriteBit, Align, Close) in one run
MaxWriterOps == 4
\* most Reader calls in one run of the reader over an arbitrary source
MaxReads == 3
\* most bytes of an arbitrary source
MaxSrcLen == 2
\* objects per frame (len(deltas)); the driver runs with 901
NumObjects == 3
\* most ticks (one Improve per side each) in one run of the Ordering engine
MaxTicks == 2

(***************************************************************************)
(* Inputs.                                                                 *)
(***************************************************************************)
\* (value, width) pairs handed to WriteBits, 0 <= width <= 16; in <<5, 0>> and
\* <<50085, 3>> the value has bits above its width
WriteArgs == {<<0, 0>>, <<5, 0>>, <<5, 3>>, <<50085, 3>>, <<165, 8>>, <<50085, 16>>}
\* widths handed to ReadBits
Widths == {a[2] : a \in WriteArgs}
\* arguments of WriteBit (an int; only x&1 is written)
BitArgs == {1, 2}
\* bytes an arbitrary source may hold
SrcBytes == {165, 60}

Nil == "nil"
EOF == "EOF"
\* errors the underlying io.Writer / io.Reader may return
IOErrors == {"ErrIO", "ErrClosedPipe"}

(***************************************************************************)
(* Machine words.  A uint64 accumulator is the set of its set bit          *)
(* positions, so that 64-bit shifts and ors are exact.                     *)
(***************************************************************************)
Pow2(n) == 2 ^ n

\* the set bits of a value below 2^31
BitsOf(x) == {i \in 0..30 : (x \div Pow2(i)) % 2 = 1}

RECURSIVE ValueOf(_)
\* the value of a bit set (all positions below 31)
ValueOf(S) ==
  IF S = {} THEN 0
  ELSE LET i == CHOOSE j \in S : TRUE IN Pow2(i) + ValueOf(S \ {i})

\* S << n on a 64-bit word
Shl(S, n) == {j \in 0..63 : (j - n) \in S}

\* S >> n on a 64-bit word; a shift count of 64 or more (a wrapped uint) gives 0
Shr(S, n) == IF n < 0 \/ n >= 64 THEN {} ELSE {j \in 0..63 : (j + n) \in S}

\* byte(S): the low 8 bits
ByteOf(S) == ValueOf({i \in S : i < 8})

\* x & (1<<width - 1)
MaskLow(S, width) == {i \in S : i < width}

(***************************************************************************)
(* bit.Writer.  w = [bits, nbits, err]; the sink is the underlying         *)
(* io.Writer: the bytes it accepted and the number of Write calls it got.  *)
(* res is what the sink's Write returns as error for the call made.        *)
(***************************************************************************)
NewWriter == [bits |-> {}, nbits |-> 0, err |-> Nil]

NewSink == [bytes |-> <<>>, calls |-> 0]

\* w.w.Write(buf) returning error res
SinkWrite(s, buf, res) ==
  [bytes |-> IF res = Nil THEN s.bytes \o buf ELSE s.bytes,
   calls |-> s.calls + 1]

RECURSIVE flushLoopNoShift(_, _, _)
\* flushLoop without w.bits >>= 8: every flushed byte is the lowest one
flushLoopNoShift(bits, nbits, buf) ==
  IF nbits > 8
  THEN flushLoopNoShift(bits, nbits - 8, Append(buf, ByteOf(bits)))
  ELSE [bits |-> bits, nbits |-> nbits, buf |-> buf]

RECURSIVE flushLoop(_, _, _)
\* for w.nbits > 8 { buf[n] = byte(w.bits); w.bits >>= 8; w.nbits -= 8; n++ }
flushLoop(bits, nbits, buf) ==
  IF nbits > 8
  THEN flushLoop(Shr(bits, 8), nbits - 8, Append(buf, ByteOf(bits)))
  ELSE [bits |-> bits, nbits |-> nbits, buf |-> buf]

\* flush without its check of w.err: it writes again after a failure
flushUnchecked(w, s, res) ==
  LET d == flushLoop(w.bits, w.nbits, <<>>)
  IN [w |-> [bits |-> d.bits, nbits |-> d.nbits, err |-> res],
      s |-> SinkWrite(s, d.buf, res)]

flush(w, s, res) ==
  IF w.err # Nil
  THEN [w |-> [w EXCEPT !.nbits = 0], s |-> s]
  ELSE LET d == flushLoop(w.bits, w.nbits, <<>>)
       IN [w |-> [bits |-> d.bits, nbits |-> d.nbits, err |-> res],
           s |-> SinkWrite(s, d.buf, res)]

\* flushpartial that writes its last byte even when no bit is left
flushpartialAlways(w, s, res1, res2) ==
  LET f == flush(w, s, res1)
  IN IF f.w.err # Nil
     THEN [w |-> [f.w EXCEPT !.nbits = 0], s |-> f.s]
     ELSE [w |-> [bits |-> {}, nbits |-> 0, err |-> res2],
           s |-> SinkWrite(f.s, <<ByteOf(f.w.bits)>>, res2)]

\* flushpartial that forgets to empty the accumulator after its last byte
flushpartialKeepBits(w, s, res1, res2) ==
  LET f == flush(w, s, res1)
  IN IF f.w.err # Nil
     THEN [w |-> [f.w EXCEPT !.nbits = 0], s |-> f.s]
     ELSE IF f.w.nbits > 0
          THEN [w |-> [f.w EXCEPT !.err = res2],
                s |-> SinkWrite(f.s, <<ByteOf(f.w.bits)>>, res2)]
          ELSE f

flushpartial(w, s, res1, res2) ==
  LET f == flush(w, s, res1)
  IN IF f.w.err # Nil
     THEN [w |-> [f.w EXCEPT !.nbits = 0], s |-> f.s]
     ELSE IF f.w.nbits > 0
          THEN [w |-> [bits |-> {}, nbits |-> 0, err |-> res2],
                s |-> SinkWrite(f.s, <<ByteOf(f.w.bits)>>, res2)]
          ELSE f

WriteBits(w, s, x, width, res) ==
  LET w1 == [w EXCEPT !.bits = @ \cup Shl(BitsOf(x), w.nbits),
                      !.nbits = @ + width]
  IN IF w1.nbits > 16 THEN flush(w1, s, res) ELSE [w |-> w1, s |-> s]

WriteBit(w, s, x, res) == WriteBits(w, s, x % 2, 1, res)

WriterAlign(w, s, res1, res2) == flushpartial(w, s, res1, res2)

Close(w, s, res1, res2) == WriterAlign(w, s, res1, res2)

(***************************************************************************)
(* bit.Reader.  r = [bits, nbits, err]; nbits is a uint that the code lets  *)
(* wrap below zero (r.nbits -= 8): it is kept as the signed value that      *)
(* int(r.nbits) gives.  The source is the underlying io.Reader: its bytes,  *)
(* the read position, the Read calls it got, and how it fails.              *)
(***************************************************************************)
NewReader == [bits |-> 0, nbits |-> 8, err |-> Nil]

\* a source over bytes b that fails its failAt-th Read with failErr (0: never)
\* and, when eager, returns its last byte together with EOF
NewSource(b, failAt, failErr, eager) ==
  [bytes |-> b, pos |-> 0, calls |-> 0,
   failAt |-> failAt, failErr |-> failErr, eager |-> eager]

\* r.r.Read(temp[:]) on a one byte buffer: [n, byte, err]
SourceRead(src) ==
  IF src.calls + 1 = src.failAt
  THEN [n |-> 0, byte |-> 0, err |-> src.failErr]
  ELSE IF src.pos >= Len(src.bytes)
       THEN [n |-> 0, byte |-> 0, err |-> EOF]
       ELSE [n |-> 1, byte |-> src.bytes[src.pos + 1],
             err |-> IF src.eager /\ src.pos + 1 = Len(src.bytes)
                     THEN EOF ELSE Nil]

read(r, src) ==
  IF r.err # Nil
  THEN [r |-> [r EXCEPT !.nbits = 8], src |-> src]
  ELSE LET o == SourceRead(src)
       IN [r |-> [r EXCEPT !.err = o.err, !.bits = o.byte],
           src |-> [src EXCEPT !.pos = @ + o.n, !.calls = @ + 1]]

\* Align that rewinds to the start of the current byte
ReaderAlignRewind(r) == [r EXCEPT !.nbits = 0]

ReaderAlign(r) == [r EXCEPT !.nbits = 8]

RECURSIVE readLoop(_, _, _, _, _)
\* for int(width)-int(n) > 0 { r.read(); r.nbits -= 8; ...; x |= r.bits << n; n += 8 }
readLoop(r, src, x, n, width) ==
  IF width - n > 0
  THEN LET rd == read(r, src)
           r1 == [rd.r EXCEPT !.nbits = @ - 8]
       IN IF r1.err # Nil
          THEN [r |-> r1, src |-> rd.src, val |-> 0, err |-> r1.err]
          ELSE readLoop(r1, rd.src, x \cup Shl(BitsOf(r1.bits), n), n + 8, width)
  ELSE [r |-> [r EXCEPT !.nbits = @ + width], src |-> src,
        val |-> ValueOf(MaskLow(x, width)), err |-> Nil]

\* ReadBits without its check of r.err: it reads on after a failure
ReadBitsUnchecked(r, src, width) ==
  LET left == 8 - r.nbits
  IN IF left > width
     THEN [r |-> [r EXCEPT !.nbits = @ + width], src |-> src,
           val |-> ValueOf(MaskLow(Shr(BitsOf(r.bits), r.nbits), width)),
           err |-> Nil]
     ELSE readLoop(r, src, Shr(BitsOf(r.bits), r.nbits), 8 - r.nbits, width)

ReadBits(r, src, width) ==
  IF r.err # Nil
  THEN [r |-> r, src |-> src, val |-> 0, err |-> r.err]
  ELSE LET left == 8 - r.nbits
       IN IF left > width
          THEN [r |-> [r EXCEPT !.nbits = @ + width], src |-> src,
                val |-> ValueOf(MaskLow(Shr(BitsOf(r.bits), r.nbits), width)),
                err |-> Nil]
          ELSE readLoop(r, src, Shr(BitsOf(r.bits), r.nbits), 8 - r.nbits, width)

ReadBit(r, src) == ReadBits(r, src, 1)


(***************************************************************************)
(* Frames.  A Delta is one object's state; a frame (Deltas) is a sequence  *)
(* of NumObjects of them, object i at position i + 1.                      *)
(***************************************************************************)
Delta(largest, a, b, c, x, y, z, interacting) ==
  [Largest |-> largest, A |-> a, B |-> b, C |-> c,
   X |-> x, Y |-> y, Z |-> z, Interacting |-> interacting]

\* the zero value of Delta, as make(Deltas, N) gives
ZeroDelta == Delta(0, 0, 0, 0, 0, 0, 0, 0)

Objects == 0..(NumObjects - 1)

\* make(Deltas, N)
ZeroFrame == [i \in 1..NumObjects |-> ZeroDelta]

\* object states the frames of the Ordering engine are made of
OrderDeltas == {ZeroDelta, Delta(2, 3, -1, 0, -2, 5, 1, 1)}

OrderFrames == [1..NumObjects -> OrderDeltas]

getLargest(a) == a.Largest

getInteracting(a) == a.Interacting

\* a Getter applied, the Getter given by name
Get(get, a) == IF get = "getLargest" THEN getLargest(a) ELSE getInteracting(a)

\* field Value of a Delta in the flattened (object, field) space: A, B, C, X, Y, Z
FieldOf(a, value) ==
  CASE value = 0 -> a.A
    [] value = 1 -> a.B
    [] value = 2 -> a.C
    [] value = 3 -> a.X
    [] value = 4 -> a.Y
    [] value = 5 -> a.Z

(***************************************************************************)
(* Ordering.                                                               *)
(***************************************************************************)
IndexValue(index, value) == [Index |-> index, Value |-> value]

NewOrdering(deltas) ==
  LET n == Len(deltas)
  IN [Largest |-> [i \in 1..n |-> i - 1],
      Interacting |-> [i \in 1..n |-> i - 1],
      ABC |-> [i \in 1..(n * 3) |-> IndexValue((i - 1) % n, (i - 1) \div n)],
      XYZ |-> [i \in 1..(n * 3) |-> IndexValue((i - 1) % n, (i - 1) \div n + 3)]]

\* byGetter{order, deltas, get}: what Less compares at each position of order
byGetterKeys(order, deltas, get) ==
  [i \in 1..Len(order) |-> Get(get, deltas[order[i] + 1])]

\* byGetter.Less(i, j)
byGetterLess(keys, i, j) == keys[i] < keys[j]

\* the expected delta of an (object, field) entry: historic against baseline
byDeltaKey(iv, hist, base) ==
  FieldOf(hist[iv.Index + 1], iv.Value) - FieldOf(base[iv.Index + 1], iv.Value)

\* byDelta{order, historic, baseline}: what Less compares at each position
byDeltaKeys(order, hist, base) ==
  [i \in 1..Len(order) |-> byDeltaKey(order[i], hist, base)]

\* byDelta.Less(i, j)
byDeltaLess(keys, i, j) == keys[i] < keys[j]

\* sort.Sort(data): data in ascending order of Less, the table of
\* data.Less(i, j).  The sort is not stable: where neither of two elements is less than the other, their order is the
\* one the build's algorithm gives, a function of the comparisons alone.  It is
\* kept ("kept", as the insertion sort of short slices does) or not
\* ("reversed"); ties names which.
SortSort(data, Less, ties) ==
  LET n == Len(data)
      Before(j, i) ==
        \/ Less[j, i]
        \/ /\ ~Less[i, j]
           /\ IF ties = "kept" THEN j < i ELSE j > i
      Ranks == [i \in 1..n |-> Cardinality({j \in 1..n : j # i /\ Before(j, i)}) + 1]
      Placed(rank) == [k \in 1..n |-> data[CHOOSE i \in 1..n : rank[i] = k]]
  IN CHOOSE sorted \in {Placed(rank) : rank \in {Ranks}} : TRUE

max_steps == 10

MinInt32 == -2147483647 - 1

\* a swap that loses an entry: order[i-1] = order[i] alone
ClobberPrevious(order, i) == [order EXCEPT ![i - 1] = order[i]]

\* order[i-1], order[i] = order[i], order[i-1]  (positions from 1)
SwapWithPrevious(order, i) ==
  [order EXCEPT ![i - 1] = order[i], ![i] = order[i - 1]]

RECURSIVE approxPass(_, _, _, _, _, _)
\* one pass of improveApprox's inner loop, from position i
approxPass(order, deltas, get, i, prev, swapped) ==
  IF i > Len(order) THEN [order |-> order, swapped |-> swapped]
  ELSE LET curr == Get(get, deltas[order[i] + 1])
       IN IF prev > curr
          THEN approxPass(SwapWithPrevious(order, i), deltas, get, i + 1, prev, TRUE)
          ELSE approxPass(order, deltas, get, i + 1, curr, swapped)

RECURSIVE approxSteps(_, _, _, _)
\* improveApprox's outer loop, from step k
approxSteps(order, deltas, get, k) ==
  IF k >= max_steps THEN order
  ELSE LET p == approxPass(order, deltas, get, 1, MinInt32, FALSE)
       IN IF ~p.swapped THEN p.order ELSE approxSteps(p.order, deltas, get, k + 1)

improveApprox(order, deltas, get) == approxSteps(order, deltas, get, 0)

\* sort.Sort(&byGetter{order, deltas, get})
improveSort(order, deltas, get, ties) ==
  CHOOSE sorted \in
    {SortSort(order, [i, j \in 1..Len(order) |-> byGetterLess(keys, i, j)], ties) :
       keys \in {byGetterKeys(order, deltas, get)}} : TRUE

\* sort.Sort(&byDelta{order, historic, baseline})
sortByDelta(order, hist, base, ties) ==
  CHOOSE sorted \in
    {SortSort(order, [i, j \in 1..Len(order) |-> byDeltaLess(keys, i, j)], ties) :
       keys \in {byDeltaKeys(order, hist, base)}} : TRUE

(***************************************************************************)
(* State of the Ordering engine: the sender's Ordering and the receiver's, *)
(* which repeats every call of the sender with the same frames.            *)
(***************************************************************************)
VARIABLES
  order,     \* the sender's Ordering
  peer,      \* the receiver's Ordering
  pending,   \* the sender's calls the receiver has not made yet
  historic,  \* the frame before baseline
  baseline,  \* the frame the last call sorted by
  before,    \* the sender's Ordering before its last call
  lastOp,    \* the sender's last call
  ticks,     \* the calls the sender has made
  tieOrder   \* how this build's sort.Sort orders ties

orderVars == <<order, peer, pending, historic, baseline, before, lastOp, ticks, tieOrder>>

\* a tie order that changes from call to call with state the two sides do not share
TiesUnshared ==
  IF ticks % 2 = 0 THEN tieOrder
  ELSE IF tieOrder = "kept" THEN "reversed" ELSE "kept"

\* the tie order of this call of sort.Sort: the build's
TiesNow == tieOrder

\* Ordering.Improve (dontsort = false)
Improve(ord, hist, base) ==
  [Largest |-> improveSort(ord.Largest, base, "getLargest", TiesNow),
   Interacting |-> improveSort(ord.Interacting, base, "getInteracting", TiesNow),
   ABC |-> sortByDelta(ord.ABC, hist, base, TiesNow),
   XYZ |-> sortByDelta(ord.XYZ, hist, base, TiesNow)]

\* the Largest and Interacting tables repaired by improveApprox
ImproveApprox(ord, hist, base) ==
  [ord EXCEPT !.Largest = improveApprox(ord.Largest, base, "getLargest"),
              !.Interacting = improveApprox(ord.Interacting, base, "getInteracting")]

\* a call of the Ordering engine, by name
Improved(op, ord, hist, base) ==
  IF op = "Improve" THEN Improve(ord, hist, base) ELSE ImproveApprox(ord, hist, base)

(***************************************************************************)
(* The snapshot codec of package physics.  The arithmetic coder is a       *)
(* lossless channel of coded bits: the encoder is the sequence of          *)
(* (model, bit) calls made on it, the decoder returns them in order.       *)
(***************************************************************************)
\* a ^ b on small non-negative values
Xor(a, b) ==
  ValueOf((BitsOf(a) \ BitsOf(b)) \cup (BitsOf(b) \ BitsOf(a)))

VARIABLES
  lastModel,  \* the model the last Encode or Decode call made and left behind
  totalext    \* the package's running count of bits (totalext)

\* a model as its constructor returns it.  Its state is a function of the bits
\* coded through it, and is kept as those bits.
FreshModel(name) == [name |-> name, seen |-> <<>>]

\* the model after it has adapted to bit
Adapt(m, bit) == [m EXCEPT !.seen = Append(@, bit)]

\* a mZeros that hands out one shared model, as a package-level singleton would
mZerosShared == lastModel

\* mZeros(): a new model on every call
mZeros == FreshModel("mzeros")

\* arith.NewEncoder()
NewEncoder == <<>>

\* m.Encode(enc, bit): bit coded under the state m is in; enc and m after it
ModelEncode(enc, m, bit) ==
  [enc |-> Append(enc, [model |-> m, bit |-> bit]), m |-> Adapt(m, bit)]

\* enc.Close(); enc.Bytes()
EncoderBytes(enc) == enc

\* arith.NewDecoder(snapshot); calls keeps the Decode calls made on it
NewDecoder(snap) == [coded |-> snap, pos |-> 0, calls |-> <<>>]

\* m.Decode(dec): the next coded bit, which comes out as it went in when m is
\* in the state the bit was coded under, and inverted when it is not; 0 past
\* the end.  With it, the decoder and the model after the call.
ModelDecode(dec, m) ==
  LET bit == IF dec.pos >= Len(dec.coded) THEN 0
             ELSE IF dec.coded[dec.pos + 1].model = m
                  THEN dec.coded[dec.pos + 1].bit
                  ELSE 1 - dec.coded[dec.pos + 1].bit
  IN [bit |-> bit,
      dec |-> [dec EXCEPT !.pos = @ + 1,
                          !.calls = Append(@, [model |-> m, bit |-> bit])],
      m |-> Adapt(m, bit)]

\* bit.ZEncode: 0, -1, 1, -2, 2, ... to 0, 1, 2, 3, 4, ...
ZEncode(v) == IF v >= 0 THEN 2 * v ELSE -2 * v - 1

RECURSIVE ScanRight(_)
\* bit.ScanRight: the position of the highest bit set in x
ScanRight(x) == IF x <= 1 THEN 0 ELSE 1 + ScanRight(x \div 2)

\* a presence pass that codes the nochange flag, 1 for an unchanged object
RECURSIVE encodePresenceNoChange(_, _, _, _, _, _)
encodePresenceNoChange(enc, m, items, base, cur, i) ==
  IF i >= Len(cur) THEN [enc |-> enc, m |-> m, items |-> items]
  ELSE IF cur[i + 1] = base[i + 1]
       THEN LET e == ModelEncode(enc, m, 1)
            IN encodePresenceNoChange(e.enc, e.m, items, base, cur, i + 1)
       ELSE LET e == ModelEncode(enc, m, 0)
            IN encodePresenceNoChange(e.enc, e.m, Append(items, i), base, cur, i + 1)

RECURSIVE encodePresence(_, _, _, _, _, _)
\* for i := range current: one bit per object, the changed ones kept in items
encodePresence(enc, m, items, base, cur, i) ==
  IF i >= Len(cur) THEN [enc |-> enc, m |-> m, items |-> items]
  ELSE IF cur[i + 1] = base[i + 1]
       THEN LET e == ModelEncode(enc, m, 0)
            IN encodePresence(e.enc, e.m, items, base, cur, i + 1)
       ELSE LET e == ModelEncode(enc, m, 1)
            IN encodePresence(e.enc, e.m, Append(items, i), base, cur, i + 1)

\* an Interacting pass that walks every object, not the changed ones
RECURSIVE encodeInteractingAll(_, _, _, _, _)
encodeInteractingAll(enc, m, items, cur, k) ==
  IF k > Len(cur) THEN [enc |-> enc, m |-> m]
  ELSE LET e == ModelEncode(enc, m, Xor(cur[k].Interacting, 1))
       IN encodeInteractingAll(e.enc, e.m, items, cur, k + 1)

RECURSIVE encodeInteracting(_, _, _, _, _)
\* for _, i := range items: mzeros.Encode(enc, uint(cube.Interacting^1))
encodeInteracting(enc, m, items, cur, k) ==
  IF k > Len(items) THEN [enc |-> enc, m |-> m]
  ELSE LET e == ModelEncode(enc, m, Xor(cur[items[k] + 1].Interacting, 1))
       IN encodeInteracting(e.enc, e.m, items, cur, k + 1)

RECURSIVE encodeLargest(_, _, _, _, _, _)
\* for _, i := range items: v := Largest ^ base.Largest; Encode(v&1); Encode(v>>1)
encodeLargest(enc, m, items, base, cur, k) ==
  IF k > Len(items) THEN [enc |-> enc, m |-> m]
  ELSE LET v == Xor(cur[items[k] + 1].Largest, base[items[k] + 1].Largest)
           e0 == ModelEncode(enc, m, v % 2)
           e1 == ModelEncode(e0.enc, e0.m, v \div 2)
       IN encodeLargest(e1.enc, e1.m, items, base, cur, k + 1)

\* what a call of the function Value6 / Delta6 / Extra6 returns comes to:
\* return v, or the panic("invalid") of the default branch
Return(v) == [panic |-> FALSE, value |-> v]

Panic == [panic |-> TRUE, value |-> 0]

\* an index6 whose last entry of each object is one field too far
RECURSIVE index6Overrun(_, _)
index6Overrun(index, N) ==
  IF index = <<>> THEN <<>>
  ELSE LET v == Head(index)
       IN <<v, v + N, v + N * 2, v + N * 3, v + N * 4, v + N * 6>>
            \o index6Overrun(Tail(index), N)

RECURSIVE index6(_, _)
\* for _, v := range index: r = append(r, v, v+N, v+N*2, v+N*3, v+N*4, v+N*5)
index6(index, N) ==
  IF index = <<>> THEN <<>>
  ELSE LET v == Head(index)
       IN <<v, v + N, v + N * 2, v + N * 3, v + N * 4, v + N * 5>>
            \o index6(Tail(index), N)

\* Value6(base)(i), for i >= 0: k := i % N; switch i / N
Value6(base, i) ==
  LET N == Len(base)
      k == i % N
  IN CASE i \div N = 0 -> Return(base[k + 1].A)
       [] i \div N = 1 -> Return(base[k + 1].B)
       [] i \div N = 2 -> Return(base[k + 1].C)
       [] i \div N = 3 -> Return(base[k + 1].X)
       [] i \div N = 4 -> Return(base[k + 1].Y)
       [] i \div N = 5 -> Return(base[k + 1].Z)
       [] OTHER -> Panic

\* Delta6(hist, base)(i), for i >= 0.  The frames hold small values: no
\* difference leaves the int32 range.
Delta6(hist, base, i) ==
  LET N == Len(base)
      k == i % N
  IN CASE i \div N = 0 -> Return(hist[k + 1].B - base[k + 1].A)
       [] i \div N = 1 -> Return(hist[k + 1].B - base[k + 1].B)
       [] i \div N = 2 -> Return(hist[k + 1].C - base[k + 1].C)
       [] i \div N = 3 -> Return(hist[k + 1].X - base[k + 1].X)
       [] i \div N = 4 -> Return(hist[k + 1].Y - base[k + 1].Y)
       [] i \div N = 5 -> Return(hist[k + 1].Z - base[k + 1].Z)
       [] OTHER -> Panic

\* Extra6(hist, base, cur)(i), for i >= 0
Extra6(hist, base, cur, i) ==
  LET N == Len(base)
      k == i % N
  IN CASE i \div N = 0 ->
            Return(cur[k + 1].A - base[k + 1].A + (hist[k + 1].B - base[k + 1].A))
       [] i \div N = 1 ->
            Return(cur[k + 1].B - base[k + 1].B + (hist[k + 1].B - base[k + 1].B))
       [] i \div N = 2 ->
            Return(cur[k + 1].C - base[k + 1].C + (hist[k + 1].C - base[k + 1].C))
       [] i \div N = 3 ->
            Return(cur[k + 1].X - base[k + 1].X + (hist[k + 1].X - base[k + 1].X))
       [] i \div N = 4 ->
            Return(cur[k + 1].Y - base[k + 1].Y + (hist[k + 1].Y - base[k + 1].Y))
       [] i \div N = 5 ->
            Return(cur[k + 1].Z - base[k + 1].Z + (hist[k + 1].Z - base[k + 1].Z))
       [] OTHER -> Panic

\* SortByZ(items6, cur6): items6 in ascending order of the zigzag of cur6
SortByZ(items6, hist, base) ==
  CHOOSE sorted \in
    {SortSort(items6, [i, j \in 1..Len(items6) |-> keys[i] < keys[j]], TiesNow) :
       keys \in {[j \in 1..Len(items6) |->
                    ZEncode(Delta6(hist, base, items6[j]).value)]}} : TRUE

\* for _, i := range items6: what the loop reads at entry i
indexedVisit(hist, base, cur, i) ==
  [i |-> i, cur |-> Delta6(hist, base, i), ext |-> Extra6(hist, base, cur, i)]

RECURSIVE indexedBits(_, _)
\* for _, i := range items6: if ext != 0 { totalext += ScanRight(ext) + 1 }
indexedBits(visited, k) ==
  IF k > Len(visited) THEN 0
  ELSE LET ext == ZEncode(visited[k].ext.value)
       IN (IF ext # 0 THEN ScanRight(ext) + 1 ELSE 0) + indexedBits(visited, k + 1)

\* items6 := index6(...); SortByZ(items6, cur6); for _, i := range items6
indexedPass(items, hist, base, cur) ==
  CHOOSE pass \in
    {[items6 |-> items6,
      visited |-> CHOOSE visited \in
                    {[j \in 1..Len(sorted) |-> indexedVisit(hist, base, cur, sorted[j])] :
                       sorted \in {SortByZ(items6, hist, base)}} : TRUE] :
       items6 \in {index6(items, Len(base))}} : TRUE

\* State.Encode, with what it did on the way: the coder calls, how many each
\* pass made, the changed objects, the indexed pass, the model it used
EncodeRun(hist, base, cur) ==
  LET p == encodePresence(NewEncoder, mZeros, <<>>, base, cur, 0)
      e2 == encodeInteracting(p.enc, p.m, p.items, cur, 1)
      e3 == encodeLargest(e2.enc, e2.m, p.items, base, cur, 1)
      ix == indexedPass(p.items, hist, base, cur)
      panicked == \E j \in 1..Len(ix.visited) : ix.visited[j].ext.panic
  IN [snapshot |-> EncoderBytes(e3.enc),
      calls |-> e3.enc,
      passes |-> <<<<"presence", Len(p.enc)>>,
                   <<"interacting", Len(e2.enc) - Len(p.enc)>>,
                   <<"largest", Len(e3.enc) - Len(e2.enc)>>,
                   <<"indexed", 0>>>>,
      items |-> p.items,
      items6 |-> ix.items6,
      visited |-> ix.visited,
      extbits |-> IF panicked THEN 0 ELSE indexedBits(ix.visited, 1),
      panicked |-> panicked,
      mzeros |-> e3.m]

\* State.Encode: the snapshot of current against baseline
Encode(hist, base, cur) == EncodeRun(hist, base, cur).snapshot

RECURSIVE decodePresence(_, _, _, _, _)
\* for i := range current: if mzeros.Decode(dec) == 1 { items = append(items, i) }
decodePresence(dec, m, items, n, i) ==
  IF i >= n THEN [dec |-> dec, m |-> m, items |-> items]
  ELSE LET d == ModelDecode(dec, m)
       IN decodePresence(d.dec, d.m, IF d.bit = 1 THEN Append(items, i) ELSE items,
                         n, i + 1)

RECURSIVE decodeInteracting(_, _, _, _, _)
\* for _, i := range items: cube.Interacting = int32(mzeros.Decode(dec) ^ 1)
decodeInteracting(dec, m, items, cur, k) ==
  IF k > Len(items) THEN [dec |-> dec, m |-> m, cur |-> cur]
  ELSE LET d == ModelDecode(dec, m)
       IN decodeInteracting(d.dec, d.m, items,
            [cur EXCEPT ![items[k] + 1].Interacting = Xor(d.bit, 1)], k + 1)

\* a Largest pass that reads one bit for each object, not two
RECURSIVE decodeLargestOneBit(_, _, _, _, _, _)
decodeLargestOneBit(dec, m, items, base, cur, k) ==
  IF k > Len(items) THEN [dec |-> dec, m |-> m, cur |-> cur]
  ELSE LET d0 == ModelDecode(dec, m)
       IN decodeLargestOneBit(d0.dec, d0.m, items, base,
            [cur EXCEPT ![items[k] + 1].Largest =
                          Xor(base[items[k] + 1].Largest, d0.bit)],
            k + 1)

RECURSIVE decodeLargest(_, _, _, _, _, _)
\* for _, i := range items: v0, v1 := Decode, Decode; Largest = base.Largest ^ (v1<<1|v0)
decodeLargest(dec, m, items, base, cur, k) ==
  IF k > Len(items) THEN [dec |-> dec, m |-> m, cur |-> cur]
  ELSE LET d0 == ModelDecode(dec, m)
           d1 == ModelDecode(d0.dec, d0.m)
       IN decodeLargest(d1.dec, d1.m, items, base,
            [cur EXCEPT ![items[k] + 1].Largest =
                          Xor(base[items[k] + 1].Largest, d1.bit * 2 + d0.bit)],
            k + 1)

\* State.Decode, with what it did on the way
DecodeRun(base, snap) ==
  LET p == decodePresence(NewDecoder(snap), mZeros, <<>>, Len(base), 0)
      c2 == decodeInteracting(p.dec, p.m, p.items, base, 1)
      c3 == decodeLargest(c2.dec, c2.m, p.items, base, c2.cur, 1)
  IN [cur |-> c3.cur,
      calls |-> c3.dec.calls,
      passes |-> <<<<"presence", p.dec.pos>>,
                   <<"interacting", c2.dec.pos - p.dec.pos>>,
                   <<"largest", c3.dec.pos - c2.dec.pos>>>>,
      items |-> p.items,
      mzeros |-> c3.m]

\* State.Decode: current rebuilt from a copy of baseline and the snapshot
Decode(base, snap) == DecodeRun(base, snap).cur

\* object states the frames of the snapshot codec are made of: unchanged, X
\* moved by 3, and every field changed
SnapDeltas ==
  {ZeroDelta, Delta(0, 0, 0, 0, 3, 0, 0, 0), Delta(2, 3, -1, 0, -2, 5, 1, 1)}

SnapFrames == [1..NumObjects -> SnapDeltas]

\* the frames before baseline
SnapHistorics ==
  {ZeroFrame, [i \in 1..NumObjects |-> Delta(1, 1, 2, 0, -1, 0, 4, 0)]}

VARIABLES
  sHistoric,  \* State.Historic().Cubes
  sBaseline,  \* State.Baseline().Cubes, the same on both sides
  sCurrent,   \* State.Current().Cubes of the sender
  snapshot,   \* what Encode returned
  decoded,    \* State.Current().Cubes of the receiver
  spc,        \* "tick", then "encoded", then "decoded"
  encRun,     \* what the last Encode did on the way
  decRun,     \* what the last Decode did on the way
  remembered, \* an earlier Encode call, its frames and its snapshot
  ncalls      \* the ticks before this one

snapVars ==
  <<sHistoric, sBaseline, sCurrent, snapshot, decoded, spc,
    encRun, decRun, remembered, ncalls, lastModel, totalext>>

None == "none"

\* no Encode call is remembered
NoCall == [at |-> -1, inputs |-> <<>>, snapshot |-> <<>>, others |-> FALSE]

\* nothing encoded or decoded yet
SnapFresh ==
  /\ snapshot = <<>>
  /\ decoded = ZeroFrame
  /\ spc = "tick"
  /\ encRun = None
  /\ decRun = None
  /\ remembered = NoCall
  /\ ncalls = 0
  /\ lastModel = FreshModel("mzeros")
  /\ totalext = 0

\* the snapshot codec at rest
SnapIdle ==
  /\ sHistoric = ZeroFrame
  /\ sBaseline = ZeroFrame
  /\ sCurrent = ZeroFrame
  /\ SnapFresh

(***************************************************************************)
(* The driver (main): a ring of HistoryLen frame buffers and the mirror the *)
(* snapshot is decoded into.  A buffer is known by its slot, the ring's     *)
(* 0..HistoryLen-1 and MirrorBuf; what it holds is the number of the input  *)
(* frame read into it, NotRead while it is as make(Deltas, N) left it.  The *)
(* input file holds fileLen whole frames.                                  *)
(***************************************************************************)
MaxFrames == 16

HistoryLen == 8

Preloaded == 6

NotRead == -1

MirrorBuf == HistoryLen

historicSlot(f) == (f - 7 + HistoryLen) % HistoryLen

\* a baseline taken a whole ring back, from the slot current is read into
baselineSlotStale(f) == (f - 8 + HistoryLen) % HistoryLen

baselineSlot(f) == (f - 6 + HistoryLen) % HistoryLen

currentSlot(f) == f % HistoryLen

VARIABLES
  dpc,          \* where main is: "preload", "select", "read", "codec", "done"
  history,      \* what each buffer of the ring holds
  mirror,       \* what the mirror holds: the frames it was decoded from
  frame,        \* main's frame counter
  fileLen,      \* the frames in the input file
  filePos,      \* the frames read from it so far
  historicBuf,  \* the slot of this iteration's historic
  baselineBuf,  \* the slot of this iteration's baseline
  currentBuf,   \* the slot of this iteration's current
  heldBefore,   \* what historic and baseline held when the iteration began
  iteration     \* the iterations of the tick loop completed

driverVars ==
  <<dpc, history, mirror, frame, fileLen, filePos,
    historicBuf, baselineBuf, currentBuf, heldBefore, iteration>>

\* main before it opens a file of n frames
DriverStart(n) ==
  /\ dpc = "preload"
  /\ history = [slot \in 0..(HistoryLen - 1) |-> NotRead]
  /\ mirror = <<NotRead, NotRead>>
  /\ frame = 0
  /\ fileLen = n
  /\ filePos = 0
  /\ historicBuf = NotRead
  /\ baselineBuf = NotRead
  /\ currentBuf = NotRead
  /\ heldBefore = <<NotRead, NotRead>>
  /\ iteration = 0

DriverIdle == DriverStart(0)

(***************************************************************************)
(* State of the bit stream.                                                *)
(***************************************************************************)
VARIABLES
  pc,      \* "writing": the Writer is in use; "reading": a Reader is
  w,       \* the bit.Writer
  sink,    \* its underlying io.Writer
  wret,    \* the error the last Writer call returned
  wlog,    \* the Writer calls made so far
  r,       \* the bit.Reader
  src,     \* its underlying io.Reader
  rlog     \* the Reader calls made so far, with what each returned

bitVars == <<pc, w, sink, wret, wlog, r, src, rlog>>

vars == <<bitVars, orderVars, snapVars, driverVars>>

WOp(op, x, width) == [op |-> op, x |-> x, width |-> width]

ROp(op, width, val, err) == [op |-> op, width |-> width, val |-> val, err |-> err]

SinkResults == {Nil} \cup IOErrors

\* the Ordering engine at rest, after NewOrdering(make(Deltas, N))
OrderIdle ==
  /\ order = NewOrdering(ZeroFrame)
  /\ peer = NewOrdering(ZeroFrame)
  /\ pending = <<>>
  /\ historic = ZeroFrame
  /\ baseline = ZeroFrame
  /\ before = NewOrdering(ZeroFrame)
  /\ lastOp = "NewOrdering"
  /\ ticks = 0
  /\ tieOrder = "kept"

\* the bit stream at rest
BitIdle ==
  /\ pc = "writing"
  /\ w = NewWriter
  /\ sink = NewSink
  /\ wret = Nil
  /\ wlog = <<>>
  /\ r = NewReader
  /\ src = NewSource(<<>>, 0, Nil, FALSE)
  /\ rlog = <<>>

InitBit == BitIdle /\ OrderIdle /\ SnapIdle /\ DriverIdle

(***************************************************************************)
(* Writer calls.                                                           *)
(***************************************************************************)
WriterStep(res, entry) ==
  /\ pc = "writing"
  /\ Len(wlog) < MaxWriterOps
  /\ w' = res.w
  /\ sink' = res.s
  /\ wret' = res.w.err
  /\ wlog' = Append(wlog, entry)
  /\ UNCHANGED <<pc, r, src, rlog>>
  /\ UNCHANGED <<orderVars, snapVars, driverVars>>

StepWriteBits ==
  \E a \in WriteArgs, res \in SinkResults :
    WriterStep(WriteBits(w, sink, a[1], a[2], res), WOp("WriteBits", a[1], a[2]))

StepWriteBit ==
  \E x \in BitArgs, res \in SinkResults :
    WriterStep(WriteBit(w, sink, x, res), WOp("WriteBits", x % 2, 1))

StepAlign ==
  \E res1 \in SinkResults, res2 \in SinkResults :
    WriterStep(WriterAlign(w, sink, res1, res2), WOp("Align", 0, 0))

StepClose ==
  \E res1 \in SinkResults, res2 \in SinkResults :
    WriterStep(Close(w, sink, res1, res2), WOp("Align", 0, 0))

(***************************************************************************)
(* Reader calls.                                                           *)
(***************************************************************************)
\* a Reader is made over the bytes the Writer emitted, once it was closed
StepNewReader ==
  /\ pc = "writing"
  /\ wlog # <<>>
  /\ wlog[Len(wlog)].op = "Align"
  /\ w.err = Nil
  /\ pc' = "reading"
  /\ r' = NewReader
  /\ src' = NewSource(sink.bytes, 0, Nil, FALSE)
  /\ rlog' = <<>>
  /\ UNCHANGED <<w, sink, wret, wlog>>
  /\ UNCHANGED <<orderVars, snapVars, driverVars>>

ReaderStep(res, entry) ==
  /\ pc = "reading"
  /\ r' = res.r
  /\ src' = res.src
  /\ rlog' = Append(rlog, entry)
  /\ UNCHANGED <<pc, w, sink, wret, wlog>>
  /\ UNCHANGED <<orderVars, snapVars, driverVars>>

StepReadBits(width) ==
  LET res == ReadBits(r, src, width)
  IN ReaderStep(res, ROp("ReadBits", width, res.val, res.err))

StepReadBit ==
  LET res == ReadBit(r, src)
  IN ReaderStep(res, ROp("ReadBits", 1, res.val, res.err))

StepReaderAlign ==
  ReaderStep([r |-> ReaderAlign(r), src |-> src], ROp("Align", 0, 0, Nil))

\* the reader repeats the writer's calls: the next call the writer made
Mirrors(op, width) ==
  /\ Len(rlog) < Len(wlog)
  /\ wlog[Len(rlog) + 1].op = op
  /\ wlog[Len(rlog) + 1].width = width

NextBit ==
  \/ StepWriteBits
  \/ StepWriteBit
  \/ StepAlign
  \/ StepClose
  \/ StepNewReader
  \/ \E width \in Widths : Mirrors("WriteBits", width) /\ StepReadBits(width)
  \/ Mirrors("WriteBits", 1) /\ StepReadBit
  \/ Mirrors("Align", 0) /\ StepReaderAlign

SpecBit == InitBit /\ [][NextBit]_vars

(***************************************************************************)
(* The reader alone, over an arbitrary source that may end or fail.        *)
(***************************************************************************)
RECURSIVE SeqsUpTo(_, _)
\* the sequences over S of length at most n
SeqsUpTo(S, n) ==
  IF n = 0 THEN {<<>>}
  ELSE LET shorter == SeqsUpTo(S, n - 1)
       IN shorter \cup {Append(q, b) : q \in shorter, b \in S}

Sources ==
  {NewSource(b, 0, Nil, eager) :
     b \in SeqsUpTo(SrcBytes, MaxSrcLen), eager \in BOOLEAN}
  \cup
  {NewSource(b[1], b[2], b[3], FALSE) :
     b \in SeqsUpTo(SrcBytes, MaxSrcLen) \X (1..(MaxSrcLen + 1)) \X IOErrors}

InitReader ==
  /\ pc = "reading"
  /\ w = NewWriter
  /\ sink = NewSink
  /\ wret = Nil
  /\ wlog = <<>>
  /\ r = NewReader
  /\ src \in Sources
  /\ rlog = <<>>
  /\ OrderIdle
  /\ SnapIdle
  /\ DriverIdle

NextReader ==
  /\ Len(rlog) < MaxReads
  /\ \/ \E width \in Widths : StepReadBits(width)
     \/ StepReadBit
     \/ StepReaderAlign

SpecReader == InitReader /\ [][NextReader]_vars

(***************************************************************************)
(* The Ordering engine.  Each tick a new frame becomes baseline and the one *)
(* before it historic; the sender improves its Ordering and the receiver    *)
(* repeats the call on its own with the same frames.                        *)
(***************************************************************************)
InitOrdering ==
  /\ BitIdle
  /\ DriverIdle
  /\ SnapIdle
  /\ order = NewOrdering(ZeroFrame)
  /\ peer = NewOrdering(ZeroFrame)
  /\ pending = <<>>
  /\ historic = ZeroFrame
  /\ baseline = ZeroFrame
  /\ before = NewOrdering(ZeroFrame)
  /\ lastOp = "NewOrdering"
  /\ ticks = 0
  /\ tieOrder \in {"kept", "reversed"}

SenderStep(op, next) ==
  /\ pending = <<>>
  /\ ticks < MaxTicks
  /\ historic' = baseline
  /\ baseline' = next
  /\ before' = order
  /\ order' = Improved(op, order, baseline, next)
  /\ pending' = <<[op |-> op, historic |-> baseline, baseline |-> next]>>
  /\ lastOp' = op
  /\ ticks' = ticks + 1
  /\ UNCHANGED <<peer, tieOrder>>
  /\ UNCHANGED <<bitVars, snapVars, driverVars>>

StepImprove == \E next \in OrderFrames : SenderStep("Improve", next)

StepImproveApprox == \E next \in OrderFrames : SenderStep("improveApprox", next)

StepPeerImprove ==
  /\ pending # <<>>
  /\ peer' = Improved(pending[1].op, peer, pending[1].historic, pending[1].baseline)
  /\ pending' = <<>>
  /\ UNCHANGED <<order, historic, baseline, before, lastOp, ticks, tieOrder>>
  /\ UNCHANGED <<bitVars, snapVars, driverVars>>

NextOrdering ==
  \/ StepImprove
  \/ StepImproveApprox
  \/ StepPeerImprove

SpecOrdering == InitOrdering /\ [][NextOrdering]_vars

(***************************************************************************)
(* One tick of the snapshot codec: the sender encodes current against      *)
(* baseline, the receiver decodes the snapshot against the same baseline.  *)
(***************************************************************************)
InitSnapshot ==
  /\ BitIdle
  /\ DriverIdle
  /\ OrderIdle
  /\ sHistoric \in SnapHistorics
  /\ sBaseline \in SnapFrames
  /\ sCurrent \in SnapFrames
  /\ SnapFresh

StepEncode ==
  /\ spc = "tick"
  /\ \E run \in {EncodeRun(sHistoric, sBaseline, sCurrent)} :
       /\ encRun' = run
       /\ snapshot' = run.snapshot
       /\ lastModel' = run.mzeros
       /\ totalext' = totalext + run.extbits
       /\ spc' = IF run.panicked THEN "panic" ELSE "encoded"
  /\ UNCHANGED <<sHistoric, sBaseline, sCurrent, decoded, decRun, remembered, ncalls>>
  /\ UNCHANGED <<bitVars, orderVars, driverVars>>

StepDecode ==
  /\ spc = "encoded"
  /\ \E run \in {DecodeRun(sBaseline, snapshot)} :
       /\ decRun' = run
       /\ decoded' = run.cur
       /\ lastModel' = run.mzeros
  /\ spc' = "decoded"
  /\ UNCHANGED <<sHistoric, sBaseline, sCurrent, snapshot, encRun, remembered,
                 ncalls, totalext>>
  /\ UNCHANGED <<bitVars, orderVars, driverVars>>

NextSnapshot ==
  \/ StepEncode
  \/ StepDecode

SpecSnapshot == InitSnapshot /\ [][NextSnapshot]_vars

(***************************************************************************)
(* Several ticks of the snapshot codec: Encode and Decode are called again *)
(* and again, on the same frames or on others, and one earlier Encode call *)
(* is kept to compare a later one with.                                    *)
(***************************************************************************)
\* the frames of the ticks: nothing moved, object 0 changed in every field,
\* every object moved in X
TickFrames ==
  {ZeroFrame,
   [i \in 1..NumObjects |->
      IF i = 1 THEN Delta(2, 3, -1, 0, -2, 5, 1, 1) ELSE ZeroDelta],
   [i \in 1..NumObjects |-> Delta(0, 0, 0, 0, 3, 0, 0, 0)]}

InitTicks ==
  /\ BitIdle
  /\ DriverIdle
  /\ OrderIdle
  /\ sHistoric \in SnapHistorics
  /\ sBaseline \in TickFrames
  /\ sCurrent \in TickFrames
  /\ SnapFresh

\* the frames of the call in progress
Inputs == <<sHistoric, sBaseline, sCurrent>>

\* the next tick brings its baseline and current; the Encode call of this one is
\* remembered, or the one remembered before is kept
StepNextTick ==
  /\ spc \in {"encoded", "decoded"}
  /\ ncalls < MaxTicks
  /\ sBaseline' \in TickFrames
  /\ sCurrent' \in TickFrames
  /\ \/ remembered' = [at |-> ncalls, inputs |-> Inputs,
                        snapshot |-> snapshot, others |-> FALSE]
     \/ /\ remembered.at >= 0
        /\ remembered' =
             [remembered EXCEPT !.others = @ \/ Inputs # remembered.inputs]
  /\ ncalls' = ncalls + 1
  /\ spc' = "tick"
  /\ UNCHANGED <<sHistoric, snapshot, decoded, encRun, decRun, lastModel, totalext>>
  /\ UNCHANGED <<bitVars, orderVars, driverVars>>

NextTicks ==
  \/ StepEncode
  \/ StepDecode
  \/ StepNextTick

SpecTicks == InitTicks /\ [][NextTicks]_vars

(***************************************************************************)
(* main: six frames are read ahead, then every iteration of the tick loop  *)
(* picks its three buffers, reads the next frame into current, and runs    *)
(* Improve, Encode and Decode.                                             *)
(***************************************************************************)
InitDriver ==
  /\ BitIdle
  /\ OrderIdle
  /\ SnapIdle
  /\ \E n \in 0..MaxFrames : DriverStart(n)

\* ReadDelta(buffer, buf): the next frame of the file into buf, or io.EOF and buf
\* as it was
ReadDelta(buf) ==
  IF filePos < fileLen
  THEN /\ history' = [history EXCEPT ![buf] = filePos]
       /\ filePos' = filePos + 1
  ELSE UNCHANGED <<history, filePos>>

\* for i := 0; i < 6; i += 1 { ReadDelta(buffer, history[frame]); frame += 1 }
StepPreload ==
  /\ dpc = "preload"
  /\ ReadDelta(frame)
  /\ frame' = frame + 1
  /\ dpc' = IF frame + 1 < Preloaded THEN "preload" ELSE "select"
  /\ UNCHANGED <<mirror, fileLen, historicBuf, baselineBuf, currentBuf,
                 heldBefore, iteration>>
  /\ UNCHANGED <<bitVars, orderVars, snapVars>>

\* historic := history[...]; baseline := history[...]; current := history[...]
StepSelect ==
  /\ dpc = "select"
  /\ historicBuf' = historicSlot(frame)
  /\ baselineBuf' = baselineSlot(frame)
  /\ currentBuf' = currentSlot(frame)
  /\ heldBefore' = <<history[historicSlot(frame)], history[baselineSlot(frame)]>>
  /\ dpc' = "read"
  /\ UNCHANGED <<history, mirror, frame, fileLen, filePos, iteration>>
  /\ UNCHANGED <<bitVars, orderVars, snapVars>>

\* err = ReadDelta(buffer, current); if err == io.EOF { break }; frame += 1
StepRead ==
  /\ dpc = "read"
  /\ ReadDelta(currentBuf)
  /\ frame' = IF filePos < fileLen THEN frame + 1 ELSE frame
  /\ dpc' = IF filePos < fileLen THEN "codec" ELSE "done"
  /\ UNCHANGED <<mirror, fileLen, historicBuf, baselineBuf, currentBuf,
                 heldBefore, iteration>>
  /\ UNCHANGED <<bitVars, orderVars, snapVars>>

\* order.Improve(historic, baseline); snapshot := Encode(order, baseline, current);
\* Decode(order, baseline, mirror, snapshot)
StepCodec ==
  /\ dpc = "codec"
  /\ mirror' = <<history[baselineBuf], history[currentBuf]>>
  /\ iteration' = iteration + 1
  /\ dpc' = "select"
  /\ UNCHANGED <<history, frame, fileLen, filePos, historicBuf, baselineBuf,
                 currentBuf, heldBefore>>
  /\ UNCHANGED <<bitVars, orderVars, snapVars>>

NextDriver ==
  \/ StepPreload
  \/ StepSelect
  \/ StepRead
  \/ StepCodec

SpecDriver == InitDriver /\ [][NextDriver]_vars

(***************************************************************************)
(* Properties of the bit stream.                                           *)
(***************************************************************************)
\* every value written so far fits its width
InRange == \A i \in 1..Len(wlog) : wlog[i].x < Pow2(wlog[i].width)

\* the positions of the Align / Close calls among the Writer calls
AlignsAt == {i \in 1..Len(wlog) : wlog[i].op = "Align"}

RECURSIVE BitsWritten(_, _)
\* the bits written by calls from..to of the Writer
BitsWritten(from, to) ==
  IF from > to THEN 0 ELSE wlog[to].width + BitsWritten(from, to - 1)

CeilDiv8(n) == (n + 7) \div 8

\* every ReadBits made so far returned the value the matching WriteBits wrote
ReadsMatchWrites ==
  \A i \in 1..Len(rlog) :
    rlog[i].op = "ReadBits" => rlog[i].val = wlog[i].x /\ rlog[i].err = Nil

\* C2: values written with WriteBits (width <= 16, value < 2^width) and closed
\* are returned by ReadBits calls with the same widths, in order, with no error.
C2_BitStreamRoundTrip ==
  (pc = "reading" /\ InRange /\ AlignsAt = {Len(wlog)}) => ReadsMatchWrites

\* 5 in 3 bits, 50085 in 16 bits and 165 in 8 bits were written, closed and read back
C2_Witness ==
  /\ pc = "reading"
  /\ Len(wlog) = 4
  /\ AlignsAt = {4}
  /\ Len(rlog) = 3
  /\ <<rlog[1].val, rlog[2].val, rlog[3].val>> = <<5, 50085, 165>>
  /\ <<rlog[1].width, rlog[2].width, rlog[3].width>> = <<3, 16, 8>>

RECURSIVE MaskedRun(_)
\* the Writer and sink after the calls of log, each value cut to its low width bits
MaskedRun(log) ==
  IF log = <<>> THEN [w |-> NewWriter, s |-> NewSink]
  ELSE LET earlier == MaskedRun(SubSeq(log, 1, Len(log) - 1))
           e == log[Len(log)]
       IN IF e.op = "Align"
          THEN WriterAlign(earlier.w, earlier.s, Nil, Nil)
          ELSE WriteBits(earlier.w, earlier.s, e.x % Pow2(e.width), e.width, Nil)

\* C6: WriteBits writes only the low width bits of value: the bytes emitted are
\* those emitted had every value been replaced by value mod 2^width.
C6_LowWidthBitsOnly ==
  w.err = Nil => sink.bytes = MaskedRun(wlog).s.bytes

\* C7: once the sink has returned an error, every later Writer call returns that
\* same error, keeps it, and makes no further call to the sink.
C7_WriterErrorSticky ==
  [][(w.err # Nil /\ wlog' # wlog)
       => (w'.err = w.err /\ wret' = w.err /\ sink' = sink)]_vars

\* the first call, an Align, failed; two 16 bit writes (reaching flush) and an
\* Align followed
C7_Witness ==
  /\ w.err # Nil
  /\ Len(wlog) = 4
  /\ sink.calls = 1
  /\ <<wlog[1].op, wlog[4].op>> = <<"Align", "Align">>
  /\ <<wlog[2].width, wlog[3].width>> = <<16, 16>>
  /\ wret = w.err

\* C8: a ReadBits during which the source ends or fails returns 0 with the error,
\* and every later ReadBits / ReadBit returns 0 and that error, reading no more.
C8_ReaderErrorSticky ==
  [][rlog' # rlog
       => LET e == rlog'[Len(rlog')]
          IN /\ (r.err = Nil /\ r'.err # Nil) => (e.val = 0 /\ e.err = r'.err)
             /\ r.err # Nil
                  => /\ r'.err = r.err
                     /\ src' = src
                     /\ e.op = "ReadBits" => (e.val = 0 /\ e.err = r.err)]_vars

\* a 16 bit read got one byte and then the end of the source; an Align and a
\* further read followed
C8_Witness ==
  /\ Len(rlog) = 3
  /\ Len(src.bytes) = 1
  /\ src.calls = 2
  /\ rlog[1] = ROp("ReadBits", 16, 0, EOF)
  /\ rlog[2].op = "Align"
  /\ rlog[3] = ROp("ReadBits", 3, 0, EOF)

\* C9: N bits written (width <= 16, value < 2^width) to a fresh Writer over a
\* sink that does not fail, then one Align: the sink got ceil(N/8) bytes and the
\* unused high bits of a final partial byte are zero.
C9_OutputLength ==
  (w.err = Nil /\ InRange /\ AlignsAt = {Len(wlog)})
    => LET n == BitsWritten(1, Len(wlog))
       IN /\ Len(sink.bytes) = CeilDiv8(n)
          /\ n % 8 # 0 => sink.bytes[Len(sink.bytes)] < Pow2(n % 8)

\* 3 + 16 + 3 = 22 bits were written and aligned: 3 bytes, the last one partial
C9_Witness ==
  /\ w.err = Nil
  /\ InRange
  /\ AlignsAt = {4}
  /\ BitsWritten(1, 4) = 22
  /\ Len(sink.bytes) = 3

\* C10: writes W1, Align, writes W2, Close: W2 starts at bit 0 of a fresh byte,
\* and a reader that reads W1's widths, calls Align and reads W2's widths gets
\* the values of W1 and W2, whatever the bit count of W1.
C10_AlignMirrors ==
  (InRange /\ w.err = Nil /\ Cardinality(AlignsAt) = 2 /\ Len(wlog) \in AlignsAt)
    => LET a == CHOOSE i \in AlignsAt : i < Len(wlog)
           n1 == BitsWritten(1, a)
           n2 == BitsWritten(a + 1, Len(wlog))
       IN /\ Len(sink.bytes) = CeilDiv8(n1) + CeilDiv8(n2)
          /\ \A i \in (a + 1)..(Len(wlog) - 1) :
               LET off == BitsWritten(a + 1, i - 1)
                   byte == sink.bytes[CeilDiv8(n1) + (off \div 8) + 1]
               IN wlog[i].width > 0
                    => (byte \div Pow2(off % 8)) % 2 = wlog[i].x % 2
          /\ pc = "reading" => ReadsMatchWrites

\* W1 is 3 bits, W2 is 16 bits, and both were read back around a reader Align
C10_Witness ==
  /\ pc = "reading"
  /\ Len(wlog) = 4
  /\ AlignsAt = {2, 4}
  /\ <<wlog[1].width, wlog[3].width>> = <<3, 16>>
  /\ Len(rlog) = 3
  /\ rlog[2].op = "Align"
  /\ <<rlog[1].val, rlog[3].val>> = <<5, 50085>>

\* W1 is empty, or a whole number of bytes
C10_WitnessWholeBytes ==
  /\ pc = "reading"
  /\ AlignsAt = {2, 4}
  /\ wlog[1].width \in {0, 8, 16}
  /\ wlog[3].width = 3
  /\ Len(rlog) = 3

\* the step is a Writer call of kind op
WriterCalls(op) ==
  /\ Len(wlog') = Len(wlog) + 1
  /\ wlog'[Len(wlog')].op = op

\* C11: an Align or Close that follows an Align or Close, with no WriteBits
\* between them, delivers no further byte to the sink and leaves no bit buffered.
C11_AlignIdempotent ==
  [][(wlog # <<>> /\ wlog[Len(wlog)].op = "Align" /\ WriterCalls("Align"))
       => (sink'.bytes = sink.bytes /\ w'.nbits = 0)]_vars

\* 3 bits were written and aligned into one byte, and Align was called again
\* twice over a sink that does not fail
C11_Witness ==
  /\ Len(wlog) = 4
  /\ wlog[1] = WOp("WriteBits", 5, 3)
  /\ AlignsAt = {2, 3, 4}
  /\ w.err = Nil
  /\ w.nbits = 0
  /\ sink.bytes = <<5>>

(***************************************************************************)
(* Properties of the Ordering engine.                                      *)
(***************************************************************************)
\* table t holds every object index exactly once
PermutesObjects(t) ==
  /\ Len(t) = NumObjects
  /\ \A k \in Objects : Cardinality({i \in 1..Len(t) : t[i] = k}) = 1

\* table t holds every (object, field) pair of the given fields exactly once
PermutesPairs(t, fields) ==
  /\ Len(t) = NumObjects * 3
  /\ \A k \in Objects, f \in fields :
       Cardinality({i \in 1..Len(t) : t[i] = IndexValue(k, f)}) = 1

\* the four tables of an Ordering are bijections on their index domains
Bijective(ord) ==
  /\ PermutesObjects(ord.Largest)
  /\ PermutesObjects(ord.Interacting)
  /\ PermutesPairs(ord.ABC, {0, 1, 2})
  /\ PermutesPairs(ord.XYZ, {3, 4, 5})

\* C3: after NewOrdering and after any number of Improve (or improveApprox)
\* calls with any frames, each of the four tables is a bijection on its domain.
C3_TablesArePermutations == Bijective(order) /\ Bijective(peer)

\* an Improve and then an improveApprox have reordered the tables
C3_Witness ==
  /\ ticks = 2
  /\ lastOp = "improveApprox"
  /\ pending = <<>>
  /\ order.Largest # before.Largest
  /\ before.Largest # NewOrdering(ZeroFrame).Largest
  /\ order.ABC # NewOrdering(ZeroFrame).ABC

HasTies(deltas, get) ==
  \E a, b \in Objects : a # b /\ Get(get, deltas[a + 1]) = Get(get, deltas[b + 1])

PosIn(t, k) == CHOOSE i \in 1..Len(t) : t[i] = k

\* table t lists the objects in ascending order of get in deltas
Ascending(t, deltas, get) ==
  \A i, j \in 1..Len(t) :
    i < j => Get(get, deltas[t[i] + 1]) <= Get(get, deltas[t[j] + 1])

\* objects of equal key are in the same relative order in t as in t0
KeepsTies(t0, t, deltas, get) ==
  \A a, b \in Objects :
    (Get(get, deltas[a + 1]) = Get(get, deltas[b + 1]) /\ PosIn(t0, a) < PosIn(t0, b))
      => PosIn(t, a) < PosIn(t, b)

\* C5: after Improve(historic, baseline) the Largest and Interacting tables are
\* in ascending order of baseline's value, and indices of equal value keep the
\* relative order they had before the call.
C5_ImproveSortsStably ==
  lastOp = "Improve"
    => /\ Ascending(order.Largest, baseline, "getLargest")
       /\ Ascending(order.Interacting, baseline, "getInteracting")
       /\ KeepsTies(before.Largest, order.Largest, baseline, "getLargest")
       /\ KeepsTies(before.Interacting, order.Interacting, baseline, "getInteracting")

(***************************************************************************)
(* Properties of the snapshot codec.                                       *)
(***************************************************************************)
\* C1: decoding the snapshot Encode produced, against the same baseline,
\* reconstructs current field for field (Largest, Interacting, A, B, C, X, Y, Z
\* of every object).
C1_SnapshotRoundTrip == spc = "decoded" => decoded = sCurrent

\* an Encode call has returned
Encoded == spc \in {"encoded", "decoded"}

\* the objects of current that differ from baseline in some field
ChangedObjects ==
  {i \in 0..(Len(sCurrent) - 1) : sCurrent[i + 1] # sBaseline[i + 1]}

\* sequence q holds the members of set S once each, in ascending order
AscendingOver(q, S) ==
  /\ {q[k] : k \in 1..Len(q)} = S
  /\ \A k \in 1..(Len(q) - 1) : q[k] < q[k + 1]

\* C12: Encode codes N presence bits before any other bit, one per object in
\* index order, bit i being 1 exactly when current[i] differs from baseline[i],
\* and the later passes handle exactly the objects whose presence bit is 1.
C12_PresencePass ==
  Encoded =>
    LET n == Len(sCurrent)
        calls == encRun.calls
        items == encRun.items
    IN /\ encRun.passes[1] = <<"presence", n>>
       /\ Len(calls) >= n
       /\ \A i \in 0..(n - 1) :
            calls[i + 1].bit = (IF i \in ChangedObjects THEN 1 ELSE 0)
       /\ AscendingOver(items, {i \in 0..(n - 1) : calls[i + 1].bit = 1})
       /\ encRun.passes[2] = <<"interacting", Len(items)>>
       /\ encRun.passes[3] = <<"largest", 2 * Len(items)>>
       /\ Len(calls) = n + 3 * Len(items)
       /\ \A k \in 1..Len(items) :
            LET v == Xor(sCurrent[items[k] + 1].Largest, sBaseline[items[k] + 1].Largest)
            IN /\ calls[n + Len(items) + 2 * k - 1].bit = v % 2
               /\ calls[n + Len(items) + 2 * k].bit = v \div 2
       /\ {encRun.items6[j] % n : j \in 1..Len(encRun.items6)} = ChangedObjects

\* the first and the last object changed, the one between them did not
C12_Witness ==
  /\ spc = "encoded"
  /\ ChangedObjects = {0, Len(sCurrent) - 1}
  /\ Len(sCurrent) >= 3
  /\ Len(snapshot) = Len(sCurrent) + 6

\* C13: the bit the Interacting pass codes for a changed object is
\* current.Interacting XOR baseline.Interacting, 0 when the flag did not change.
C13_InteractingBit ==
  Encoded =>
    \A k \in 1..Len(encRun.items) :
      encRun.calls[Len(sCurrent) + k].bit =
        Xor(sCurrent[encRun.items[k] + 1].Interacting,
            sBaseline[encRun.items[k] + 1].Interacting)

\* C14: when current equals baseline for every object, Encode codes exactly N
\* bits, all "unchanged", and its Interacting, Largest and indexed passes do
\* nothing, whatever the fields of the objects hold.
C14_NoChangeFastPath ==
  (Encoded /\ sCurrent = sBaseline) =>
    /\ Len(snapshot) = Len(sCurrent)
    /\ \A i \in 1..Len(snapshot) : snapshot[i].bit = 0
    /\ encRun.calls = snapshot
    /\ encRun.passes =
         <<<<"presence", Len(sCurrent)>>, <<"interacting", 0>>,
           <<"largest", 0>>, <<"indexed", 0>>>>
    /\ encRun.items6 = <<>>
    /\ encRun.visited = <<>>
    /\ encRun.extbits = 0

\* a frame whose objects are not all zero was encoded against itself
C14_Witness ==
  /\ spc = "encoded"
  /\ sCurrent = sBaseline
  /\ \A i \in 1..Len(sCurrent) : sCurrent[i] # ZeroDelta
  /\ Len(snapshot) = Len(sCurrent)

C19_ExpectedDeltaPerField ==
  Encoded =>
    \A i \in 0..(6 * Len(sBaseline) - 1) :
      LET k == i % Len(sBaseline)
          f == i \div Len(sBaseline)
          expected == FieldOf(sHistoric[k + 1], f) - FieldOf(sBaseline[k + 1], f)
      IN /\ Delta6(sHistoric, sBaseline, i) = Return(expected)
         /\ Extra6(sHistoric, sBaseline, sCurrent, i) =
              Return(expected + FieldOf(sCurrent[k + 1], f) - FieldOf(sBaseline[k + 1], f))

\* sequences p and q hold the same entries, each as often
SameEntries(p, q) ==
  /\ Len(p) = Len(q)
  /\ \A v \in {p[j] : j \in 1..Len(p)} :
       Cardinality({j \in 1..Len(p) : p[j] = v})
         = Cardinality({j \in 1..Len(q) : q[j] = v})

\* C20: index6 gives 6 entries for each changed object, one per field in the
\* order A, B, C, X, Y, Z; each lies in 0..6N-1 and maps back to that object and
\* field, so Encode never reaches the panicking default branch of Value6,
\* Delta6 or Extra6; an index of 6N or more does reach it.
C20_IndexDomain ==
  spc # "tick" =>
    LET n == Len(sBaseline)
        items == encRun.items
        items6 == encRun.items6
    IN /\ Len(items6) = 6 * Len(items)
       /\ \A k \in 1..Len(items), f \in 0..5 :
            LET i == items6[6 * (k - 1) + f + 1]
            IN /\ i = items[k] + f * n
               /\ i \in 0..(6 * n - 1)
               /\ i % n = items[k]
               /\ i \div n = f
               /\ Value6(sBaseline, i) = Return(FieldOf(sBaseline[items[k] + 1], f))
               /\ ~Delta6(sHistoric, sBaseline, i).panic
               /\ ~Extra6(sHistoric, sBaseline, sCurrent, i).panic
       /\ SameEntries([j \in 1..Len(encRun.visited) |-> encRun.visited[j].i], items6)
       /\ ~encRun.panicked
       /\ \A i \in (6 * n)..(7 * n) :
            /\ Value6(sBaseline, i) = Panic
            /\ Delta6(sHistoric, sBaseline, i) = Panic
            /\ Extra6(sHistoric, sBaseline, sCurrent, i) = Panic

\* the last object and another one changed: the entry of the last object's Z is
\* 6N-1, the largest index there is
C20_Witness ==
  /\ spc = "encoded"
  /\ Len(encRun.items) = 2
  /\ encRun.items6[Len(encRun.items6)] = 6 * Len(sBaseline) - 1
  /\ Len(encRun.visited) = 12

C17_FrameRoles ==
  dpc = "codec" =>
    /\ history[historicBuf] # NotRead
    /\ history[baselineBuf] # NotRead
    /\ history[baselineBuf] = history[historicBuf] + 1
    /\ history[baselineBuf] < history[currentBuf]

\* C18: at every iteration of the tick loop historic, baseline and current are
\* three different buffers of the ring and the mirror is a fourth, so reading
\* the new frame into current leaves historic and baseline as they were.
C18_BuffersDistinct ==
  dpc \in {"read", "codec"} =>
    /\ {historicBuf, baselineBuf, currentBuf} \subseteq 0..(HistoryLen - 1)
    /\ Cardinality({historicBuf, baselineBuf, currentBuf, MirrorBuf}) = 4
    /\ dpc = "codec" =>
         /\ history[currentBuf] = filePos - 1
         /\ <<history[historicBuf], history[baselineBuf]>> = heldBefore

\* the ring has gone round: frame 8 was read into slot 0, which held frame 0
C18_Witness ==
  /\ dpc = "codec"
  /\ currentBuf = 0
  /\ history[0] = HistoryLen
  /\ heldBefore = <<1, 2>>
  /\ iteration = 2

====
